---- MODULE Spec2Model ----
(***************************************************************************)
(* LiquiVerde multi-criteria shopping optimisation engine.                 *)
(*                                                                         *)
(* The four algorithmic components (knapsack optimizer, sustainability     *)
(* scorer, substitute finder, route optimizer) are modelled from the       *)
(* repository's algorithm documentation (ALGORITHMS.md).  Each component   *)
(* is a pure function of its inputs: its specification draws the inputs    *)
(* from bounded sets in Init and applies the function in one action.       *)
(* Real-valued quantities are kept as scaled integers; the scale is stated *)
(* where the quantity is defined.  The route optimizer's 2-opt loop is     *)
(* modelled pass by pass.                                                  *)
(*                                                                         *)
(* The frontend is modelled from its sources: the API client (api.js),     *)
(* the store map, the scanner page and the shopping list page.  Each page  *)
(* is a state machine over its React state: one action per handler, and    *)
(* one per way an awaited request can settle.                              *)
(***************************************************************************)
EXTENDS Integers, Sequences, FiniteSets, TLC

VARIABLES
    comp,         \* which component this run exercises
    pc,           \* "input": inputs supplied, "done": result returned
    kProducts,    \* knapsack: sequence of products [price, desired, value, essential]
    kBudget,      \* knapsack: budget in integer minor-currency units
    kQuantities,  \* knapsack: returned quantity per product
    rStores,      \* route: the input stores, each its location
    rStart,       \* route: start location
    rNNRoute,     \* route: order returned by nearest neighbor (store indices)
    rNNDistance,  \* route: total_distance returned by nearest neighbor
    rRoute,       \* route: two_opt's route (best_route after each pass)
    rDistance,    \* route: two_opt's best_distance
    rPasses,      \* route: passes of two_opt's while loop made so far
    rImproved,    \* route: two_opt's flag "improved"
    rTime,        \* route: estimated time of the returned route
    sProduct,     \* scorer: the product scored
    sAverage,     \* scorer: the category's average price
    sScore,       \* scorer: the SustainabilityScore returned
    fProduct,     \* substitutes: the original product
    fPool,        \* substitutes: the candidate pool, in the caller's order
    fMaxIncrease, \* substitutes: maximum price increase, in percent
    fMinImprove,  \* substitutes: minimum sustainability improvement, in points
    fResults,     \* substitutes: the ordered list returned
    bProducts,    \* batch substitution: the products to substitute
    bPool,        \* batch substitution: the shared candidate pool
    bResults,     \* batch substitution: the list returned
    aHostname,    \* api client: window.location.hostname of the page
    aEnv,         \* api client: VITE_API_URL of the build, <<>> when not set
    aBaseURL,     \* api client: baseURL of the axios instance, <<>> before it exists
    aRequest,     \* api client: the request sent, <<>> before one is
    mStores,      \* store map: the state "stores"
    mLoading,     \* store map: the state "loading"
    mRequest,     \* store map: storesAPI.list: "none", "pending" or "done"
    mWindowL,     \* store map: whether window.L is defined
    mScript,      \* store map: the injected leaflet.js: "none", "loading", "loaded", "error"
    mEffect,      \* store map: whether the effect on [stores] is due to run
    mMap,         \* store map: mapInstanceRef.current, <<>> while null
    scBarcode,    \* scanner: the state "barcode"
    scQuery,      \* scanner: the state "searchQuery"
    scLoading,    \* scanner: the state "loading"
    scProduct,    \* scanner: the state "product", <<>> while null
    scError,      \* scanner: the state "error", <<>> while null
    scResults,    \* scanner: the state "searchResults"
    scPending,    \* scanner: requests awaiting their response, by kind
    lProducts,    \* shopping list: the state "products" (ids of the catalog loaded)
    lLoad,        \* shopping list: productsAPI.list: "none", "pending", "loaded", "failed"
    lSelected,    \* shopping list: the state "selectedProducts"
    lMaxBudget,   \* shopping list: the state "maxBudget", <<>> when NaN
    lOptimizing,  \* shopping list: the state "optimizing"
    lResult,      \* shopping list: the state "optimizedResult", <<>> while null
    lRequests     \* shopping list: quick-optimize requests awaiting their response

kVars == <<kProducts, kBudget, kQuantities>>

rVars ==
    <<rStores, rStart, rNNRoute, rNNDistance, rRoute, rDistance, rPasses, rImproved, rTime>>

sVars == <<sProduct, sAverage, sScore>>

fVars == <<fProduct, fPool, fMaxIncrease, fMinImprove, fResults>>

bVars == <<bProducts, bPool, bResults>>

aVars == <<aHostname, aEnv, aBaseURL, aRequest>>

mVars == <<mStores, mLoading, mRequest, mWindowL, mScript, mEffect, mMap>>

scVars == <<scBarcode, scQuery, scLoading, scProduct, scError, scResults, scPending>>

lVars == <<lProducts, lLoad, lSelected, lMaxBudget, lOptimizing, lResult, lRequests>>

\* the state of the frontend pages
uVars == <<mVars, scVars, lVars>>

algVars == <<kVars, rVars, sVars, fVars, bVars, aVars>>

\* what a page leaves alone
mOthers == <<algVars, scVars, lVars>>

scOthers == <<algVars, mVars, lVars>>

lOthers == <<algVars, mVars, scVars>>

vars == <<comp, pc, kVars, rVars, sVars, fVars, bVars, aVars, uVars>>

\* the estimated time before a route is returned
NoTime == [travel_time |-> 0, shopping_time |-> 0]

\* a component that is not exercised keeps its variables at these values
KnapsackIdle == kProducts = <<>> /\ kBudget = 0 /\ kQuantities = <<>>

RouteIdle ==
    /\ rStores = <<>> /\ rStart = 0 /\ rNNRoute = <<>> /\ rNNDistance = 0
    /\ rRoute = <<>> /\ rDistance = 0 /\ rPasses = 0 /\ rImproved = FALSE
    /\ rTime = NoTime

ScorerIdle == sProduct = <<>> /\ sAverage = 0 /\ sScore = <<>>

FinderIdle ==
    /\ fProduct = <<>> /\ fPool = <<>> /\ fMaxIncrease = 0
    /\ fMinImprove = 0 /\ fResults = <<>>

BatchIdle == bProducts = <<>> /\ bPool = <<>> /\ bResults = <<>>

ApiIdle == aHostname = "" /\ aEnv = <<>> /\ aBaseURL = <<>> /\ aRequest = <<>>

MapIdle ==
    /\ mStores = <<>> /\ mLoading = FALSE /\ mRequest = "none" /\ mWindowL = FALSE
    /\ mScript = "none" /\ mEffect = FALSE /\ mMap = <<>>

NoPending == [scan |-> 0, search |-> 0]

ScannerIdle ==
    /\ scBarcode = <<>> /\ scQuery = <<>> /\ scLoading = FALSE /\ scProduct = <<>>
    /\ scError = <<>> /\ scResults = <<>> /\ scPending = NoPending

ListIdle ==
    /\ lProducts = <<>> /\ lLoad = "none" /\ lSelected = <<>> /\ lMaxBudget = <<>>
    /\ lOptimizing = FALSE /\ lResult = <<>> /\ lRequests = <<>>

UiIdle == MapIdle /\ ScannerIdle /\ ListIdle

----------------------------------------------------------------------------
(* Bounds of the model *)

MaxProducts == 2
MaxPrice == 2
MaxQty == 2
MaxValue == 1
MaxBudget == 3
MaxStores == 4
MaxCoord == 4
MaxPool == 2
MaxBatch == 3
MaxBatchPool == 2

----------------------------------------------------------------------------
(* Generic helpers *)

Min2(a, b) == IF a <= b THEN a ELSE b

Max2(a, b) == IF a >= b THEN a ELSE b

Abs(x) == IF x < 0 THEN -x ELSE x

MaxOf(S) == CHOOSE x \in S : \A y \in S : y <= x

MinOf(S) == CHOOSE x \in S : \A y \in S : x <= y

\* all sequences over S of length 0..n
SeqsUpTo(S, n) == UNION {[1..k -> S] : k \in 0..n}

----------------------------------------------------------------------------
(* 1. Multi-objective knapsack                                             *)
(*    prices and budget are integer minor-currency units; the per-unit     *)
(*    multi-objective value is a non-negative integer (value x scale).     *)

\* costo(i, q): cost of q units of product p
CostMutUnit(p, q) == IF q = 0 THEN 0 ELSE p.price

CostMutHalf(p, q) == (p.price * q) \div 2

Cost(p, q) == p.price * q

\* candidate quantities of a product: "not taken" and 1..cantidad_deseada
QuantitiesMutOver(p) == 0..(p.desired + 1)

QuantitiesMut01(p) == 0..Min2(1, p.desired)

Quantities(p) == 0..p.desired

\* "Si costo(i, q) <= w"
Feasible(p, q, w) == Cost(p, q) <= w

\* a DP row is the tuple <<dp[i][0], ..., dp[i][B]>>; At(row, w) is dp[i][w]
At(row, w) == row[w + 1]

\* dp[0][w]: no product considered yet
BaseRowMutExact(B) == [k \in 1..(B + 1) |-> IF k = 1 THEN 0 ELSE -1]

BaseRow(B) == [k \in 1..(B + 1) |-> 0]

\* dp[i][w] from dp[i-1][.] for product p: the best over the candidate quantities
DPCell(prev, p, w) ==
    MaxOf({At(prev, w - Cost(p, q)) + p.value * q :
             q \in {x \in Quantities(p) : Feasible(p, x, w)}})

RECURSIVE DPRow(_, _, _)
DPRow(prev, p, B) ==
    IF B < 0 THEN <<>>
    ELSE Append(DPRow(prev, p, B - 1), DPCell(prev, p, B))

\* the table: rows 1..n+1, row i+1 is dp[i]; rows are filled for i = 1..n in turn
RECURSIVE DPFill(_, _, _, _)
DPFill(prods, B, i, table) ==
    IF i > Len(prods) THEN table
    ELSE DPFill(prods, B, i + 1, Append(table, DPRow(table[i], prods[i], B)))

DPTable(prods, B) == DPFill(prods, B, 1, <<BaseRow(B)>>)

\* back-tracking: the quantity vectors for products 1..i that explain dp[i][w]
RECURSIVE Reconstruct(_, _, _, _)
Reconstruct(table, prods, i, w) ==
    IF i = 0 THEN {<<>>}
    ELSE UNION {
           {Append(qs, q) : qs \in Reconstruct(table, prods, i - 1, w - Cost(prods[i], q))} :
             q \in {x \in Quantities(prods[i]) :
                      /\ Feasible(prods[i], x, w)
                      /\ At(table[i + 1], w) =
                           At(table[i], w - Cost(prods[i], x)) + prods[i].value * x}}

\* optimize(products, desired_quantities) under budget B: the possible results
Optimize(prods, B) == Reconstruct(DPTable(prods, B), prods, Len(prods), B)

\* stats: total_cost and total value of a quantity vector
RECURSIVE CostUpTo(_, _, _)
CostUpTo(prods, qs, n) ==
    IF n = 0 THEN 0 ELSE CostUpTo(prods, qs, n - 1) + prods[n].price * qs[n]

TotalCost(prods, qs) == CostUpTo(prods, qs, Len(prods))

RECURSIVE ValueUpTo(_, _, _)
ValueUpTo(prods, qs, n) ==
    IF n = 0 THEN 0 ELSE ValueUpTo(prods, qs, n - 1) + prods[n].value * qs[n]

TotalValue(prods, qs) == ValueUpTo(prods, qs, Len(prods))

\* cost of the whole desired basket
RECURSIVE DesiredCostUpTo(_, _)
DesiredCostUpTo(prods, n) ==
    IF n = 0 THEN 0 ELSE DesiredCostUpTo(prods, n - 1) + prods[n].price * prods[n].desired

DesiredCost(prods) == DesiredCostUpTo(prods, Len(prods))

ProductRecords ==
    [price : 0..MaxPrice, desired : 1..MaxQty, value : 0..MaxValue, essential : {FALSE}]

InitKnapsack ==
    /\ comp = "knapsack"
    /\ pc = "input"
    /\ kProducts \in SeqsUpTo(ProductRecords, MaxProducts)
    /\ kBudget \in 0..MaxBudget
    /\ kQuantities = <<>>
    /\ RouteIdle
    /\ ScorerIdle
    /\ FinderIdle
    /\ BatchIdle
    /\ ApiIdle
    /\ UiIdle

KnapsackOptimize ==
    /\ comp = "knapsack"
    /\ pc = "input"
    /\ \E qs \in Optimize(kProducts, kBudget) : kQuantities' = qs
    /\ pc' = "done"
    /\ UNCHANGED <<comp, kProducts, kBudget, rVars, sVars, fVars, bVars, aVars, uVars>>

NextKnapsack == KnapsackOptimize

SpecKnapsack == InitKnapsack /\ [][NextKnapsack]_vars

----------------------------------------------------------------------------
(* 1b. Knapsack: essential products *)

\* essential_cost = sum(price[i] x qty[i] for i in essential_indices)
RECURSIVE EssentialCostMutUnit(_, _)
EssentialCostMutUnit(prods, n) ==
    IF n = 0 THEN 0
    ELSE EssentialCostMutUnit(prods, n - 1)
           + (IF prods[n].essential THEN prods[n].price ELSE 0)

RECURSIVE EssentialCostUpTo(_, _)
EssentialCostUpTo(prods, n) ==
    IF n = 0 THEN 0
    ELSE EssentialCostUpTo(prods, n - 1)
           + (IF prods[n].essential THEN prods[n].price * prods[n].desired ELSE 0)

EssentialCost(prods) == EssentialCostUpTo(prods, Len(prods))

\* desired x factor, factor = budget / essential_cost, floored to whole units
ScaleEssential(desired, B, essentialCost) == (desired * B) \div essentialCost

\* reduced_essentials: essentials scaled by the factor, nothing else bought
ReducedEssentials(prods, B) ==
    [i \in 1..Len(prods) |->
        IF prods[i].essential
        THEN ScaleEssential(prods[i].desired, B, EssentialCost(prods))
        ELSE 0]

NonEssential(p) == ~p.essential

\* number of non-essential products among products 1..i
RECURSIVE NonEssentialRank(_, _)
NonEssentialRank(prods, i) ==
    IF i = 0 THEN 0
    ELSE NonEssentialRank(prods, i - 1) + (IF prods[i].essential THEN 0 ELSE 1)

\* essentials at their desired quantity, non-essentials as optimized
WithEssentials(prods, nq) ==
    [i \in 1..Len(prods) |->
        IF prods[i].essential THEN prods[i].desired
        ELSE nq[NonEssentialRank(prods, i)]]

\* remaining_budget = budget - essential_cost
RemainingBudgetMutWhole(prods, B) == B

RemainingBudget(prods, B) == B - EssentialCost(prods)

\* optimize_with_essentials: the possible results
OptimizeWithEssentials(prods, B) ==
    IF EssentialCost(prods) > B
    THEN {ReducedEssentials(prods, B)}
    ELSE {WithEssentials(prods, nq) :
            nq \in Optimize(SelectSeq(prods, NonEssential), RemainingBudget(prods, B))}

\* the value of an essential product is not read by the algorithm: kept at 0
EssentialRecords ==
    ProductRecords \cup
    [price : 0..MaxPrice, desired : 1..MaxQty, value : {0}, essential : {TRUE}]

InitEssentials ==
    /\ comp = "essentials"
    /\ pc = "input"
    /\ kProducts \in SeqsUpTo(EssentialRecords, MaxProducts)
    /\ kBudget \in 0..MaxBudget
    /\ kQuantities = <<>>
    /\ RouteIdle
    /\ ScorerIdle
    /\ FinderIdle
    /\ BatchIdle
    /\ ApiIdle
    /\ UiIdle

KnapsackOptimizeWithEssentials ==
    /\ comp = "essentials"
    /\ pc = "input"
    /\ \E qs \in OptimizeWithEssentials(kProducts, kBudget) : kQuantities' = qs
    /\ pc' = "done"
    /\ UNCHANGED <<comp, kProducts, kBudget, rVars, sVars, fVars, bVars, aVars, uVars>>

NextEssentials == KnapsackOptimizeWithEssentials

SpecEssentials == InitEssentials /\ [][NextEssentials]_vars

----------------------------------------------------------------------------
(* 2. Sustainability scoring                                               *)
(*    Axis scores are whole points.  Weights are in units of 100 g and the *)
(*    carbon footprint in units of 1/200000 kg, so that the emission       *)
(*    factors (tenths of kg CO2 per kg), the transport term and the        *)
(*    percentage reductions are all exact.  overall is kept x 100.         *)

BaseScore == 50

BulkBonusMax == 10

\* an optional number is <<>> (absent) or <<v>>
Exceeds(opt, limit) == Len(opt) = 1 /\ opt[1] > limit

\* ratio = price / category average, compared without dividing
PriceRatioAdjustmentMutInclusive(price, average) ==
    IF 10 * price <= 8 * average THEN 30
    ELSE IF price <= average THEN 20
    ELSE IF 10 * price <= 12 * average THEN 10
    ELSE IF 10 * price <= 15 * average THEN -10
    ELSE -20

PriceRatioAdjustment(price, average) ==
    IF 10 * price < 8 * average THEN 30
    ELSE IF price < average THEN 20
    ELSE IF 10 * price < 12 * average THEN 10
    ELSE IF 10 * price < 15 * average THEN -10
    ELSE -20

\* a zero category average gives no ratio: no adjustment is applied
GuardedMutUnguarded(price, average) == PriceRatioAdjustment(price, average)

GuardedPriceRatioAdjustment(price, average) ==
    IF average = 0 THEN 0 ELSE PriceRatioAdjustment(price, average)

\* +10 when high in protein (> 10 g) or fibre (> 5 g)
NutritionBonus(product) ==
    IF Exceeds(product.protein, 10) \/ Exceeds(product.fiber, 5) THEN 10 ELSE 0

\* bonus proportional to the quantity bought, at most +10
BulkBonus(quantity) == Min2(BulkBonusMax, quantity)

ClampMutNone(x) == x

Clamp(x) == Max2(0, Min2(100, x))

EconomicScore(product, average) ==
    Clamp(BaseScore + GuardedPriceRatioAdjustment(product.price, average)
            + NutritionBonus(product) + BulkBonus(product.quantity))

\* CARBON_FACTORS, in tenths of kg CO2 per kg
CarbonFactor10(category) ==
    CASE category = "meat" -> 270
      [] category = "poultry" -> 69
      [] category = "dairy" -> 135
      [] category = "fish" -> 60
      [] category = "vegetables" -> 20
      [] category = "fruits" -> 11
      [] category = "grains" -> 25
      [] category = "legumes" -> 9

\* transport distance by origin, in km
TransportKm(origin) ==
    CASE origin = "local" -> 50
      [] origin = "national" -> 500
      [] origin = "south_america" -> 2000
      [] origin = "north_america" -> 5000
      [] origin = "europe" -> 10000
      [] origin = "asia" -> 12000

\* one kg of footprint in the footprint unit
CarbonUnitsPerKg == 200000

\* carbon_factor x weight + (distance / 1000) x 0.1 x weight
CarbonFootprint(product) ==
    (CarbonFactor10(product.category) * product.weight * 20
       + (TransportKm(product.origin) \div 50) * product.weight) * 100

\* organic: -10 % footprint; local origin: -30 % footprint
AdjustedFootprint(product) ==
    LET organic == IF "organic" \in product.labels
                   THEN (CarbonFootprint(product) * 9) \div 10
                   ELSE CarbonFootprint(product)
    IN  IF product.origin = "local" THEN (organic * 7) \div 10 ELSE organic

FootprintPoints(carbon) ==
    IF carbon < 1 * CarbonUnitsPerKg THEN 30
    ELSE IF carbon < 3 * CarbonUnitsPerKg THEN 15
    ELSE IF carbon < 5 * CarbonUnitsPerKg THEN 5
    ELSE IF carbon < 10 * CarbonUnitsPerKg THEN -10
    ELSE -25

EnvironmentalScore(product) ==
    Clamp(BaseScore
            + (IF "organic" \in product.labels THEN 15 ELSE 0)
            + (IF "eco-friendly" \in product.labels THEN 10 ELSE 0)
            + (IF product.origin = "local" THEN 20 ELSE 0)
            + FootprintPoints(AdjustedFootprint(product)))

SocialScore(product) ==
    Clamp(BaseScore
            + (IF "fair-trade" \in product.labels THEN 25 ELSE 0)
            + (IF "b-corp" \in product.labels THEN 20 ELSE 0)
            + (IF product.origin = "local" THEN 20 ELSE 0)
            + (IF product.origin = "south_america" THEN 10 ELSE 0)
            + (IF "small-producer" \in product.labels THEN 15 ELSE 0)
            + (IF "cooperative" \in product.labels THEN 15 ELSE 0))

\* overall = economic x 0.33 + environmental x 0.34 + social x 0.33, x 100
Overall100(economic, environmental, social) ==
    33 * economic + 34 * environmental + 33 * social

Score(product, average) ==
    LET economic == EconomicScore(product, average)
        environmental == EnvironmentalScore(product)
        social == SocialScore(product)
    IN  [economic_score |-> economic,
         environmental_score |-> environmental,
         social_score |-> social,
         overall_score |-> Overall100(economic, environmental, social),
         carbon_footprint |-> AdjustedFootprint(product)]

\* the inputs drawn: prices around every ratio threshold of an average of 10,
\* footprints in every bucket, every label combination
PriceSamples == {0, 7, 8, 10, 12, 15}

AverageSamples == {0, 10}

NutritionSamples ==
    {[protein |-> <<>>, fiber |-> <<>>], [protein |-> <<10>>, fiber |-> <<5>>],
     [protein |-> <<11>>, fiber |-> <<>>], [protein |-> <<>>, fiber |-> <<6>>]}

Labels == {"organic", "eco-friendly", "fair-trade", "b-corp", "small-producer", "cooperative"}

ScoredProducts ==
    {[price |-> pr, protein |-> nu.protein, fiber |-> nu.fiber, quantity |-> q,
      category |-> c, weight |-> w, origin |-> o, labels |-> l] :
        pr \in PriceSamples, nu \in NutritionSamples, q \in {0, 20},
        c \in {"meat", "vegetables", "legumes"}, w \in {1, 20},
        o \in {"local", "national", "south_america", "asia"},
        l \in SUBSET Labels}

InitScorer ==
    /\ comp = "scorer"
    /\ pc = "input"
    /\ sProduct \in ScoredProducts
    /\ sAverage \in AverageSamples
    /\ sScore = <<>>
    /\ KnapsackIdle
    /\ RouteIdle
    /\ FinderIdle
    /\ BatchIdle
    /\ ApiIdle
    /\ UiIdle

ScorerScore ==
    /\ comp = "scorer"
    /\ pc = "input"
    /\ sScore' = Score(sProduct, sAverage)
    /\ pc' = "done"
    /\ UNCHANGED <<comp, sProduct, sAverage, kVars, rVars, fVars, bVars, aVars, uVars>>

NextScorer == ScorerScore

SpecScorer == InitScorer /\ [][NextScorer]_vars

----------------------------------------------------------------------------
(* 3. Product substitution                                                 *)
(*    overall scores are whole points and prices whole currency units.     *)
(*    The substitution score of a candidate is kept as the whole number    *)
(*    score x 1200 x original price: 100 for the weights, 12 for the       *)
(*    average over one to four nutrients, the original price for the       *)
(*    savings percentage.  Nutrient samples are chosen so that each        *)
(*    similarity is a whole number.                                        *)

\* price_increase > max_price_increase, in percent of the original price
PriceIncreaseTooHighMutAbsolute(product, candidate, maxIncrease) ==
    candidate.price - product.price > maxIncrease

PriceIncreaseTooHigh(product, candidate, maxIncrease) ==
    (candidate.price - product.price) * 100 > maxIncrease * product.price

\* improvement = candidate_score - original_score
Improvement(product, candidate) == candidate.overall_score - product.overall_score

\* sustainability_improvement < min_sustainability_improvement
ImprovementTooLow(product, candidate, minImprove) ==
    Improvement(product, candidate) < minImprove

\* a candidate that neither filter skips
Passes(product, candidate, maxIncrease, minImprove) ==
    /\ ~PriceIncreaseTooHigh(product, candidate, maxIncrease)
    /\ ~ImprovementTooLow(product, candidate, minImprove)

\* savings of a substitution: original price - candidate price
Savings(product, candidate) == product.price - candidate.price

\* min(100, max(0, improvement))
ImprovementComponent(product, candidate) ==
    Min2(100, Max2(0, Improvement(product, candidate)))

\* min(100, max(0, savings_percent x 5)), x original price
SavingsComponentMutUnclamped(product, candidate) ==
    (product.price - candidate.price) * 500

SavingsComponentTimesPrice(product, candidate) ==
    Min2(100 * product.price, Max2(0, (product.price - candidate.price) * 500))

\* categories related to a category
RelatedCategories(category) ==
    CASE category = "meat" -> {"poultry", "fish"}
      [] category = "dairy" -> {"cheese", "yogurt", "milk"}
      [] category = "vegetables" -> {"fruits", "legumes"}
      [] OTHER -> {}

CategoryComponent(product, candidate) ==
    IF candidate.category = product.category THEN 100
    ELSE IF candidate.category \in RelatedCategories(product.category) THEN 70
    ELSE 30

NutritionMetrics == {"energy_kcal", "proteins", "carbs", "fats"}

\* metrics present on both products
SharedMetrics(product, candidate) ==
    {m \in NutritionMetrics : Len(product[m]) = 1 /\ Len(candidate[m]) = 1}

\* (1 - |v1 - v2| / max(v1, v2)) x 100
Similarity(v1, v2) == (100 * (Max2(v1, v2) - Abs(v1 - v2))) \div Max2(v1, v2)

RECURSIVE SumOver(_, _, _)
SumOver(S, product, candidate) ==
    IF S = {} THEN 0
    ELSE LET m == CHOOSE x \in S : TRUE
         IN  Similarity(product[m][1], candidate[m][1])
               + SumOver(S \ {m}, product, candidate)

\* sum(similarities) / len(similarities), x 12; 0 when no metric is shared
NutritionComponentTimes12(product, candidate) ==
    LET shared == SharedMetrics(product, candidate)
    IN  IF shared = {} THEN 0
        ELSE (12 * SumOver(shared, product, candidate)) \div Cardinality(shared)

\* score = improvement x 0.35 + savings x 0.30 + category x 0.20 + nutrition x 0.15,
\* x 1200 x original price
SubstitutionScore(product, candidate) ==
    35 * 12 * product.price * ImprovementComponent(product, candidate)
      + 30 * 12 * SavingsComponentTimesPrice(product, candidate)
      + 20 * 12 * product.price * CategoryComponent(product, candidate)
      + 15 * product.price * NutritionComponentTimes12(product, candidate)

\* the order of the returned list: higher score first; of equal scores the
\* cheaper candidate first; otherwise the order of the pool is kept
PrecedesMutStable(product, pool, a, b) ==
    \/ SubstitutionScore(product, pool[a]) > SubstitutionScore(product, pool[b])
    \/ /\ SubstitutionScore(product, pool[a]) = SubstitutionScore(product, pool[b])
       /\ a < b

Precedes(product, pool, a, b) ==
    \/ SubstitutionScore(product, pool[a]) > SubstitutionScore(product, pool[b])
    \/ /\ SubstitutionScore(product, pool[a]) = SubstitutionScore(product, pool[b])
       /\ \/ pool[a].price < pool[b].price
          \/ pool[a].price = pool[b].price /\ a < b

\* the pool indices in S, sorted
RECURSIVE SortIndices(_, _, _)
SortIndices(S, product, pool) ==
    IF S = {} THEN <<>>
    ELSE LET first == CHOOSE a \in S : \A b \in S \ {a} : Precedes(product, pool, a, b)
         IN  <<first>> \o SortIndices(S \ {first}, product, pool)

\* find_substitutes: filter, score, sort
FindSubstitutes(product, pool, maxIncrease, minImprove) ==
    LET passing == {i \in 1..Len(pool) : Passes(product, pool[i], maxIncrease, minImprove)}
        order == SortIndices(passing, product, pool)
    IN  [k \in 1..Len(order) |->
            [original |-> product,
             candidate |-> pool[order[k]],
             score |-> SubstitutionScore(product, pool[order[k]]),
             sustainability_improvement |-> Improvement(product, pool[order[k]]),
             savings |-> Savings(product, pool[order[k]])]]

\* the original product of the runs
OriginalProducts ==
    {[price |-> 10, overall_score |-> 50, category |-> "meat",
      energy_kcal |-> <<100>>, proteins |-> <<20>>, carbs |-> <<>>, fats |-> <<>>]}

\* category and nutrients of a candidate
CandidateProfiles ==
    {[category |-> "meat", energy_kcal |-> <<50>>, proteins |-> <<20>>,
      carbs |-> <<5>>, fats |-> <<>>],
     [category |-> "fish", energy_kcal |-> <<>>, proteins |-> <<>>,
      carbs |-> <<>>, fats |-> <<>>],
     [category |-> "grains", energy_kcal |-> <<>>, proteins |-> <<10>>,
      carbs |-> <<>>, fats |-> <<>>]}

\* prices 50 % below, 20 % below, equal to, 10 % above and 20 % above the
\* original's;
\* overall scores 5 below, equal to, 5 above and 30 above the original's
Candidates ==
    {[price |-> pr, overall_score |-> ov, category |-> pf.category,
      energy_kcal |-> pf.energy_kcal, proteins |-> pf.proteins,
      carbs |-> pf.carbs, fats |-> pf.fats] :
        pr \in {5, 8, 10, 11, 12}, ov \in {45, 50, 55, 80}, pf \in CandidateProfiles}

InitFinder ==
    /\ comp = "substitutes"
    /\ pc = "input"
    /\ fProduct \in OriginalProducts
    /\ fPool \in SeqsUpTo(Candidates, MaxPool)
    /\ fMaxIncrease \in {0, 10}
    /\ fMinImprove \in {0, 5}
    /\ fResults = <<>>
    /\ KnapsackIdle
    /\ RouteIdle
    /\ ScorerIdle
    /\ BatchIdle
    /\ ApiIdle
    /\ UiIdle

FinderFindSubstitutes ==
    /\ comp = "substitutes"
    /\ pc = "input"
    /\ fResults' = FindSubstitutes(fProduct, fPool, fMaxIncrease, fMinImprove)
    /\ pc' = "done"
    /\ UNCHANGED <<comp, fProduct, fPool, fMaxIncrease, fMinImprove, kVars, rVars, sVars, bVars, aVars, uVars>>

NextFinder == FinderFindSubstitutes

SpecFinder == InitFinder /\ [][NextFinder]_vars

----------------------------------------------------------------------------
(* 3b. Batch substitution *)

\* the restrictions find_substitutes applies when none are passed
DefaultMaxPriceIncrease == 10

DefaultMinImprovement == 5

\* the sort key: sustainability_improvement + savings x 10
BatchKey(x) == x.sustainability_improvement + x.savings * 10

\* sort(key, reverse = True): higher key first, equal keys in their order
BatchPrecedesMutAscending(list, a, b) ==
    \/ BatchKey(list[a]) < BatchKey(list[b])
    \/ BatchKey(list[a]) = BatchKey(list[b]) /\ a < b

BatchPrecedes(list, a, b) ==
    \/ BatchKey(list[a]) > BatchKey(list[b])
    \/ BatchKey(list[a]) = BatchKey(list[b]) /\ a < b

RECURSIVE BatchSortIndices(_, _)
BatchSortIndices(S, list) ==
    IF S = {} THEN <<>>
    ELSE LET first == CHOOSE a \in S : \A b \in S \ {a} : BatchPrecedes(list, a, b)
         IN  <<first>> \o BatchSortIndices(S \ {first}, list)

\* the for loop: the best substitute of each product that has one
RECURSIVE BatchCollect(_, _, _)
BatchCollect(products, pool, n) ==
    IF n = 0 THEN <<>>
    ELSE LET substitutes == FindSubstitutes(products[n], pool,
                              DefaultMaxPriceIncrease, DefaultMinImprovement)
             before == BatchCollect(products, pool, n - 1)
         IN  IF substitutes # <<>> THEN Append(before, substitutes[1]) ELSE before

BatchSubstitute(products, pool) ==
    LET substitutions == BatchCollect(products, pool, Len(products))
        order == BatchSortIndices(1..Len(substitutions), substitutions)
    IN  [k \in 1..Len(order) |-> substitutions[order[k]]]

\* the products of a batch: the original of the single runs, a cheaper
\* vegetable, and a product no candidate improves on by the minimum
BatchProducts ==
    OriginalProducts \cup
    {[price |-> 8, overall_score |-> 60, category |-> "vegetables",
      energy_kcal |-> <<>>, proteins |-> <<10>>, carbs |-> <<>>, fats |-> <<>>],
     [price |-> 5, overall_score |-> 80, category |-> "grains",
      energy_kcal |-> <<>>, proteins |-> <<>>, carbs |-> <<>>, fats |-> <<>>]}

BatchCandidates ==
    {c \in Candidates :
        /\ c.price \in {8, 11}
        /\ c.overall_score \in {55, 80}
        /\ c.category \in {"meat", "grains"}}

InitBatch ==
    /\ comp = "batch"
    /\ pc = "input"
    /\ bProducts \in SeqsUpTo(BatchProducts, MaxBatch)
    /\ bPool \in SeqsUpTo(BatchCandidates, MaxBatchPool)
    /\ bResults = <<>>
    /\ KnapsackIdle
    /\ RouteIdle
    /\ ScorerIdle
    /\ FinderIdle
    /\ ApiIdle
    /\ UiIdle

FinderBatchSubstitute ==
    /\ comp = "batch"
    /\ pc = "input"
    /\ bResults' = BatchSubstitute(bProducts, bPool)
    /\ pc' = "done"
    /\ UNCHANGED <<comp, bProducts, bPool, kVars, rVars, sVars, fVars, aVars, uVars>>

NextBatch == FinderBatchSubstitute

SpecBatch == InitBatch /\ [][NextBatch]_vars

----------------------------------------------------------------------------
(* 4. Route optimization                                                   *)
(*    Stores and the start location are points of the sphere where the     *)
(*    haversine distance is exact in whole units: the north pole and       *)
(*    MaxCoord points of the equator at equal steps of longitude.  A       *)
(*    location is a number: 0 is the pole, k in 1..MaxCoord the equator    *)
(*    point at longitude (k - 1) x 360 / MaxCoord degrees.  The unit of    *)
(*    distance is the arc of 90 / MaxCoord degrees: a quarter circle is    *)
(*    MaxCoord units and one step of longitude is 4 units.                 *)

MaxIterations == 100

MaxLiveStores == 3

Pole == 0

\* haversine: R x c, c the central angle; between the pole and the equator a
\* quarter circle, between two points of the equator the shorter arc
Distance(a, b) ==
    IF a = b THEN 0
    ELSE IF a = Pole \/ b = Pole THEN MaxCoord
    ELSE 4 * Min2(Abs(a - b), MaxCoord - Abs(a - b))

\* min(unvisited, key = distance(current, stores[i])): unvisited is a set of
\* small integers, which is iterated in ascending order, and min keeps the
\* first of the nearest it meets: the lowest index among the nearest
NearestMutHighest(stores, current, unvisited) ==
    MaxOf({i \in unvisited :
             \A j \in unvisited :
                 Distance(current, stores[i]) <= Distance(current, stores[j])})

Nearest(stores, current, unvisited) ==
    MinOf({i \in unvisited :
             \A j \in unvisited :
                 Distance(current, stores[i]) <= Distance(current, stores[j])})

\* the while loop of nearest_neighbor, then "total_distance +=
\* distance(current, start_location)" and the return
RECURSIVE NNLoop(_, _, _, _, _, _)
NNLoop(stores, start, current, unvisited, route, total) ==
    IF unvisited = {}
    THEN [route |-> route, total_distance |-> total + Distance(current, start)]
    ELSE LET nearest == Nearest(stores, current, unvisited)
         IN  NNLoop(stores, start, stores[nearest], unvisited \ {nearest},
                    Append(route, nearest),
                    total + Distance(current, stores[nearest]))

NearestNeighbor(stores, start) ==
    NNLoop(stores, start, start, 1..Len(stores), <<>>, 0)

\* calculate_distance: start -> first store -> ... -> last store -> start
RECURSIVE LegsUpTo(_, _, _)
LegsUpTo(stores, route, n) ==
    IF n <= 1 THEN 0
    ELSE LegsUpTo(stores, route, n - 1)
           + Distance(stores[route[n - 1]], stores[route[n]])

CalculateDistanceMutOneWay(stores, start, route) ==
    IF route = <<>> THEN 0
    ELSE Distance(start, stores[route[1]]) + LegsUpTo(stores, route, Len(route))

CalculateDistance(stores, start, route) ==
    IF route = <<>> THEN 0
    ELSE Distance(start, stores[route[1]])
           + LegsUpTo(stores, route, Len(route))
           + Distance(stores[route[Len(route)]], start)

\* estimate_time: total_time = travel_time + shopping_time, kept as its two
\* terms: travel_time = (distance / 30) x 60, in minutes per km of one unit
\* of distance, and shopping_time = 15 minutes per store
EstimateTime(distance, numStores) ==
    [travel_time |-> (distance * 60) \div 30, shopping_time |-> numStores * 15]

\* route[:i] + route[i:j+1][::-1] + route[j+1:], positions counted from 1
ReverseSegmentMutDup(route, i, j) ==
    [k \in 1..Len(route) |-> IF i <= k /\ k <= j THEN route[j] ELSE route[k]]

ReverseSegment(route, i, j) ==
    [k \in 1..Len(route) |-> IF i <= k /\ k <= j THEN route[i + j - k] ELSE route[k]]

\* "route = best_route" binds two_opt's own name to the new list: the list the
\* caller passed in keeps its contents
CallerRouteMutInPlace(route, bestRoute) == bestRoute

CallerRoute(route, bestRoute) == route

\* "if new_distance < best_distance"
ImprovesMutWorse(newDistance, bestDistance) == newDistance > bestDistance

ImprovesMutOrEqual(newDistance, bestDistance) == newDistance <= bestDistance

Improves(newDistance, bestDistance) == newDistance < bestDistance

\* for i in range(1, len(route) - 1): for j in range(i + 1, len(route)), as
\* positions counted from 1: i from 2 to len - 1, j from i + 1 to len.  best
\* holds best_route, best_distance and improved; every new_route is a reversal
\* of the route the pass started from
RECURSIVE PassFrom(_, _, _, _, _, _)
PassFrom(stores, start, route, i, j, best) ==
    IF i > Len(route) - 1 THEN best
    ELSE IF j > Len(route) THEN PassFrom(stores, start, route, i + 1, i + 2, best)
    ELSE LET newRoute == ReverseSegment(route, i, j)
             newDistance == CalculateDistance(stores, start, newRoute)
         IN  PassFrom(stores, start, route, i, j + 1,
                      IF Improves(newDistance, best.distance)
                      THEN [route |-> newRoute, distance |-> newDistance,
                            improved |-> TRUE]
                      ELSE best)

\* one pass of two_opt's while loop: "improved = False", then the for loops
TwoOptPass(stores, start, route, bestRoute, bestDistance) ==
    PassFrom(stores, start, route, 2, 3,
             [route |-> bestRoute, distance |-> bestDistance, improved |-> FALSE])

InitRoute ==
    /\ comp = "route"
    /\ pc = "input"
    /\ rStores \in SeqsUpTo(0..MaxCoord, MaxStores)
    /\ rStart \in 0..MaxCoord
    /\ rNNRoute = <<>>
    /\ rNNDistance = 0
    /\ rRoute = <<>>
    /\ rDistance = 0
    /\ rPasses = 0
    /\ rImproved = FALSE
    /\ rTime = NoTime
    /\ KnapsackIdle
    /\ ScorerIdle
    /\ FinderIdle
    /\ BatchIdle
    /\ ApiIdle
    /\ UiIdle

\* optimize_route, step 1: nearest_neighbor, then two_opt's initialisation
\* ("improved = True", best_route = route, best_distance)
RouteNearestNeighbor ==
    /\ comp = "route"
    /\ pc = "input"
    /\ LET nn == NearestNeighbor(rStores, rStart)
       IN  /\ rNNRoute' = nn.route
           /\ rNNDistance' = nn.total_distance
           /\ rRoute' = nn.route
           /\ rDistance' = CalculateDistance(rStores, rStart, nn.route)
    /\ rImproved' = TRUE
    /\ pc' = "two_opt"
    /\ UNCHANGED <<comp, rStores, rStart, rPasses, rTime, kVars, sVars, fVars, bVars, aVars, uVars>>

\* one iteration of "while improved", ending with "route = best_route"
RouteTwoOptPass ==
    /\ comp = "route"
    /\ pc = "two_opt"
    /\ rImproved
    /\ rPasses < MaxIterations
    /\ \E pass \in {TwoOptPass(rStores, rStart, rRoute, rRoute, rDistance)} :
           /\ rRoute' = pass.route
           /\ rDistance' = pass.distance
           /\ rImproved' = pass.improved
           /\ rNNRoute' = CallerRoute(rNNRoute, pass.route)
    /\ rPasses' = rPasses + 1
    /\ UNCHANGED <<comp, pc, rStores, rStart, rNNDistance, rTime, kVars, sVars, fVars, bVars,
                   aVars, uVars>>

\* the while loop is left when improved is false (or at the iteration limit):
\* two_opt returns, and optimize_route estimates the time of the route
RouteTwoOptReturn ==
    /\ comp = "route"
    /\ pc = "two_opt"
    /\ \/ ~rImproved
       \/ rPasses >= MaxIterations
    /\ rTime' = EstimateTime(rDistance, Len(rStores))
    /\ pc' = "done"
    /\ UNCHANGED <<comp, rStores, rStart, rNNRoute, rNNDistance, rRoute, rDistance, rPasses,
                   rImproved, kVars, sVars, fVars, bVars, aVars, uVars>>

NextRoute == RouteNearestNeighbor \/ RouteTwoOptPass \/ RouteTwoOptReturn

SpecRoute == InitRoute /\ [][NextRoute]_vars

\* the runs over which termination is checked
InitRouteLive == InitRoute /\ Len(rStores) <= MaxLiveStores

\* two_opt is a sequential loop: once it is entered, a pass that can run does
SpecRouteLive ==
    /\ InitRouteLive
    /\ [][NextRoute]_vars
    /\ WF_vars(RouteTwoOptPass)
    /\ WF_vars(RouteTwoOptReturn)

----------------------------------------------------------------------------
(* 5. Frontend API client (services/api.js)                                *)
(*    The frontend is built with VITE_API_URL in the environment, then     *)
(*    loaded in a browser at some hostname, where the module creates the   *)
(*    axios instance every request goes through.                           *)

ProductionURL == "https://liquiverde-platform.onrender.com/api"

LocalURL == "http://localhost:8000/api"

\* window.location.hostname !== 'localhost' && ... !== '127.0.0.1'
isProduction(hostname) == hostname # "localhost" /\ hostname # "127.0.0.1"

\* a string that || does not skip: defined and not empty
Truthy(env) == env # <<>> /\ env[1] # ""

API_BASE_URL(hostname, env) ==
    IF isProduction(hostname) THEN ProductionURL
    ELSE IF Truthy(env) THEN env[1] ELSE LocalURL

\* the build script: [ -z "$VITE_API_URL" ] holds for unset and for empty
BuildScriptEnv(env) == IF env = <<>> \/ env[1] = "" THEN <<ProductionURL>> ELSE env

Hostnames ==
    {"localhost", "127.0.0.1", "liquiverde-frontend.onrender.com", "shop.example.org"}

EnvValues ==
    {<<>>, <<"">>, <<"https://liquiverde-backend.onrender.com">>,
     <<"https://api.example.org/api">>}

Endpoints == {"/products/search", "/shopping-lists/", "/analysis/dashboard", "/stores/"}

InitApi ==
    /\ comp = "api"
    /\ pc = "env"
    /\ aHostname \in Hostnames
    /\ aEnv \in EnvValues
    /\ aBaseURL = <<>>
    /\ aRequest = <<>>
    /\ KnapsackIdle
    /\ RouteIdle
    /\ ScorerIdle
    /\ FinderIdle
    /\ BatchIdle
    /\ UiIdle

\* build through the build script, which fills in a missing VITE_API_URL
ApiBuildScript ==
    /\ comp = "api"
    /\ pc = "env"
    /\ aEnv' = BuildScriptEnv(aEnv)
    /\ pc' = "built"
    /\ UNCHANGED <<comp, aHostname, aBaseURL, aRequest, kVars, rVars, sVars, fVars, bVars, uVars>>

\* build with "npm run build" alone: the environment is used as it is
ApiBuild ==
    /\ comp = "api"
    /\ pc = "env"
    /\ pc' = "built"
    /\ UNCHANGED <<comp, aVars, kVars, rVars, sVars, fVars, bVars, uVars>>

\* the module is evaluated in the browser: api = axios.create({baseURL: API_BASE_URL})
ApiCreate ==
    /\ comp = "api"
    /\ pc = "built"
    /\ aBaseURL' = <<API_BASE_URL(aHostname, aEnv)>>
    /\ pc' = "ready"
    /\ UNCHANGED <<comp, aHostname, aEnv, aRequest, kVars, rVars, sVars, fVars, bVars, uVars>>

\* api.get(url) / api.post(url): the request goes to baseURL + url
ApiRequest ==
    /\ comp = "api"
    /\ pc = "ready"
    /\ \E url \in Endpoints : aRequest' = <<[baseURL |-> aBaseURL[1], url |-> url]>>
    /\ pc' = "done"
    /\ UNCHANGED <<comp, aHostname, aEnv, aBaseURL, kVars, rVars, sVars, fVars, bVars, uVars>>

NextApi == ApiBuildScript \/ ApiBuild \/ ApiCreate \/ ApiRequest

SpecApi == InitApi /\ [][NextApi]_vars

----------------------------------------------------------------------------
(* 6. Store map page (StoreMap with Leaflet)                               *)
(*    The component mounts, asks storesAPI.list for the stores and injects *)
(*    the leaflet.js script; the two loads complete in either order.  A    *)
(*    store is known by where its position is found: "latlng" has          *)
(*    location.latitude and location.longitude, "geojson" only             *)
(*    location.coordinates, "unlocated" neither.                           *)

MaxMapStores == 2

StoreKinds == {"latlng", "geojson", "unlocated"}

\* lat = location?.latitude || location?.coordinates?.[1], lng likewise
HasLatLng(store) == store \in {"latlng", "geojson"}

\* initMap: a marker for each store with lat && lng; fitBounds over the
\* stores with location.latitude && location.longitude, when there are any
initMap(stores) ==
    [markers |-> Cardinality({k \in 1..Len(stores) : HasLatLng(stores[k])}),
     fitted |-> \E k \in 1..Len(stores) : stores[k] = "latlng"]

\* the condition of the effect on [stores]; mapRef.current is the div the
\* component always renders, so it is set whenever an effect runs
ShouldInitMap(stores, windowL, mapInstance) ==
    Len(stores) > 0 /\ windowL /\ mapInstance = <<>>

\* first render done, effects not yet run; window.L is already defined when
\* the page loaded leaflet.js on an earlier visit
InitStoreMap ==
    /\ comp = "map"
    /\ pc = "mount"
    /\ mStores = <<>>
    /\ mLoading = TRUE
    /\ mRequest = "none"
    /\ mWindowL \in BOOLEAN
    /\ mScript = "none"
    /\ mEffect = FALSE
    /\ mMap = <<>>
    /\ KnapsackIdle
    /\ RouteIdle
    /\ ScorerIdle
    /\ FinderIdle
    /\ BatchIdle
    /\ ApiIdle
    /\ ScannerIdle
    /\ ListIdle

\* the effects of the mount: loadStores() and loadLeaflet(), then the effect
\* on [stores], which finds stores empty
MapMount ==
    /\ comp = "map"
    /\ pc = "mount"
    /\ mRequest' = "pending"
    /\ mScript' = IF mWindowL THEN mScript ELSE "loading"
    /\ mEffect' = FALSE
    /\ pc' = "mounted"
    /\ UNCHANGED <<comp, mStores, mLoading, mWindowL, mMap, mOthers>>

\* loadStores, after the await: setStores(response.data), setLoading(false);
\* the new array makes the effect on [stores] due
MapStoresLoaded ==
    /\ comp = "map"
    /\ mRequest = "pending"
    /\ \E data \in SeqsUpTo(StoreKinds, MaxMapStores) : mStores' = data
    /\ mLoading' = FALSE
    /\ mRequest' = "done"
    /\ mEffect' = TRUE
    /\ UNCHANGED <<comp, pc, mWindowL, mScript, mMap, mOthers>>

\* loadStores, the request failed: catch logs, finally setLoading(false)
MapStoresFailed ==
    /\ comp = "map"
    /\ mRequest = "pending"
    /\ mLoading' = FALSE
    /\ mRequest' = "done"
    /\ UNCHANGED <<comp, pc, mStores, mWindowL, mScript, mEffect, mMap, mOthers>>

\* leaflet.js has run and defined window.L; script.onload only logs
MapScriptLoaded ==
    /\ comp = "map"
    /\ mScript = "loading"
    /\ mScript' = "loaded"
    /\ mWindowL' = TRUE
    /\ UNCHANGED <<comp, pc, mStores, mLoading, mRequest, mEffect, mMap, mOthers>>

\* leaflet.js could not be fetched
MapScriptError ==
    /\ comp = "map"
    /\ mScript = "loading"
    /\ mScript' = "error"
    /\ UNCHANGED <<comp, pc, mStores, mLoading, mRequest, mWindowL, mEffect, mMap, mOthers>>

\* the effect on [stores], run after the render that follows setStores
MapStoresEffect ==
    /\ comp = "map"
    /\ mEffect
    /\ mEffect' = FALSE
    /\ mMap' = IF ShouldInitMap(mStores, mWindowL, mMap) THEN <<initMap(mStores)>> ELSE mMap
    /\ UNCHANGED <<comp, pc, mStores, mLoading, mRequest, mWindowL, mScript, mOthers>>

NextMap ==
    \/ MapMount
    \/ MapStoresLoaded
    \/ MapStoresFailed
    \/ MapScriptLoaded
    \/ MapScriptError
    \/ MapStoresEffect

SpecMap == InitStoreMap /\ [][NextMap]_vars

\* the browser runs an effect that is due and delivers the events of the two
\* loads; whether the script loads or fails is not up to fairness
SpecMapLive ==
    /\ SpecMap
    /\ WF_vars(MapMount)
    /\ WF_vars(MapStoresLoaded \/ MapStoresFailed)
    /\ WF_vars(MapScriptLoaded \/ MapScriptError)
    /\ WF_vars(MapStoresEffect)

----------------------------------------------------------------------------
(* 7. Scanner page (pages/Scanner.jsx)                                     *)
(*    A text is a sequence of characters, a blank or a visible one.  The   *)
(*    requests that await their response are counted by kind; a response   *)
(*    resumes the handler that awaits it.                                  *)

MaxText == 2

MaxResults == 2

MaxOutstanding == 2

Texts == SeqsUpTo({" ", "x"}, MaxText)

\* String.prototype.trim: leading and trailing blanks removed
RECURSIVE TrimLeft(_)
TrimLeft(text) ==
    IF text # <<>> /\ Head(text) = " " THEN TrimLeft(Tail(text)) ELSE text

RECURSIVE TrimRight(_)
TrimRight(text) ==
    IF text # <<>> /\ text[Len(text)] = " "
    THEN TrimRight(SubSeq(text, 1, Len(text) - 1))
    ELSE text

Trim(text) == TrimRight(TrimLeft(text))

ScanProducts == {"p1", "p2"}

\* err.response?.data?.detail || 'Producto no encontrado'
ScanErrors == {"detail", "Producto no encontrado"}

Outstanding == scPending.scan + scPending.search

\* the submit buttons: disabled={loading}
SubmitEnabledMutAlways(loading) == TRUE

SubmitEnabled(loading) == ~loading

InitScanner ==
    /\ comp = "scanner_page"
    /\ pc = "mounted"
    /\ scBarcode = <<>>
    /\ scQuery = <<>>
    /\ scLoading = FALSE
    /\ scProduct = <<>>
    /\ scError = <<>>
    /\ scResults = <<>>
    /\ scPending = NoPending
    /\ KnapsackIdle
    /\ RouteIdle
    /\ ScorerIdle
    /\ FinderIdle
    /\ BatchIdle
    /\ ApiIdle
    /\ MapIdle
    /\ ListIdle

\* onChange of the barcode input, or one of the "Usar" buttons
ScannerSetBarcode ==
    /\ comp = "scanner_page"
    /\ \E text \in Texts : scBarcode' = text
    /\ UNCHANGED <<comp, pc, scQuery, scLoading, scProduct, scError, scResults, scPending,
                   scOthers>>

\* onChange of the search input
ScannerSetQuery ==
    /\ comp = "scanner_page"
    /\ \E text \in Texts : scQuery' = text
    /\ UNCHANGED <<comp, pc, scBarcode, scLoading, scProduct, scError, scResults, scPending,
                   scOthers>>

\* handleScan up to its await
ScannerHandleScan ==
    /\ comp = "scanner_page"
    /\ SubmitEnabled(scLoading)
    /\ Outstanding < MaxOutstanding
    /\ IF Trim(scBarcode) = <<>>
       THEN UNCHANGED <<scLoading, scError, scProduct, scPending>>
       ELSE /\ scLoading' = TRUE
            /\ scError' = <<>>
            /\ scProduct' = <<>>
            /\ scPending' = [scPending EXCEPT !.scan = @ + 1]
    /\ UNCHANGED <<comp, pc, scBarcode, scQuery, scResults, scOthers>>

\* handleScan after the await: setProduct(response.data), finally
ScannerScanResolved ==
    /\ comp = "scanner_page"
    /\ scPending.scan > 0
    /\ \E data \in ScanProducts : scProduct' = <<data>>
    /\ scLoading' = FALSE
    /\ scPending' = [scPending EXCEPT !.scan = @ - 1]
    /\ UNCHANGED <<comp, pc, scBarcode, scQuery, scError, scResults, scOthers>>

\* handleScan, the request failed: catch, finally
ScannerScanRejected ==
    /\ comp = "scanner_page"
    /\ scPending.scan > 0
    /\ \E message \in ScanErrors : scError' = <<message>>
    /\ scLoading' = FALSE
    /\ scPending' = [scPending EXCEPT !.scan = @ - 1]
    /\ UNCHANGED <<comp, pc, scBarcode, scQuery, scProduct, scResults, scOthers>>

\* handleSearch up to its await
ScannerHandleSearch ==
    /\ comp = "scanner_page"
    /\ SubmitEnabled(scLoading)
    /\ Outstanding < MaxOutstanding
    /\ IF Trim(scQuery) = <<>>
       THEN UNCHANGED <<scLoading, scError, scResults, scPending>>
       ELSE /\ scLoading' = TRUE
            /\ scError' = <<>>
            /\ scResults' = <<>>
            /\ scPending' = [scPending EXCEPT !.search = @ + 1]
    /\ UNCHANGED <<comp, pc, scBarcode, scQuery, scProduct, scOthers>>

\* handleSearch after the await: setSearchResults(response.data), the error
\* when nothing was found, finally
ScannerSearchResolved ==
    /\ comp = "scanner_page"
    /\ scPending.search > 0
    /\ \E data \in SeqsUpTo(ScanProducts, MaxResults) :
          /\ scResults' = data
          /\ scError' = IF Len(data) = 0 THEN <<"No se encontraron productos">> ELSE scError
    /\ scLoading' = FALSE
    /\ scPending' = [scPending EXCEPT !.search = @ - 1]
    /\ UNCHANGED <<comp, pc, scBarcode, scQuery, scProduct, scOthers>>

\* handleSearch, the request failed: catch, finally
ScannerSearchRejected ==
    /\ comp = "scanner_page"
    /\ scPending.search > 0
    /\ scError' = <<"Error al buscar productos">>
    /\ scLoading' = FALSE
    /\ scPending' = [scPending EXCEPT !.search = @ - 1]
    /\ UNCHANGED <<comp, pc, scBarcode, scQuery, scProduct, scResults, scOthers>>

\* selectProduct, from a click on one of the search results shown
ScannerSelectProduct ==
    /\ comp = "scanner_page"
    /\ \E k \in 1..Len(scResults) : scProduct' = <<scResults[k]>>
    /\ scResults' = <<>>
    /\ scQuery' = <<>>
    /\ UNCHANGED <<comp, pc, scBarcode, scLoading, scError, scPending, scOthers>>

NextScanner ==
    \/ ScannerSetBarcode
    \/ ScannerSetQuery
    \/ ScannerHandleScan
    \/ ScannerScanResolved
    \/ ScannerScanRejected
    \/ ScannerHandleSearch
    \/ ScannerSearchResolved
    \/ ScannerSearchRejected
    \/ ScannerSelectProduct

SpecScanner == InitScanner /\ [][NextScanner]_vars

----------------------------------------------------------------------------
(* 8. Shopping list page (pages/ShoppingList.jsx)                          *)
(*    A product of the catalog is known by its id.  A JavaScript number is *)
(*    <<n>>, and <<>> when it is NaN.  The text of a number input is a     *)
(*    sequence of characters.                                              *)

MaxCatalog == 2

ProductIds == 1..MaxCatalog

NaN == <<>>

DefaultMaxBudget == 50000

DigitChars == <<"0", "1", "2", "3", "4", "5", "6", "7", "8", "9">>

IsDigit(char) == \E k \in 1..10 : DigitChars[k] = char

DigitValue(char) == (CHOOSE k \in 1..10 : DigitChars[k] = char) - 1

\* the digits a text starts with
RECURSIVE LeadingDigits(_)
LeadingDigits(text) ==
    IF text # <<>> /\ IsDigit(Head(text))
    THEN <<Head(text)>> \o LeadingDigits(Tail(text))
    ELSE <<>>

RECURSIVE DecimalValue(_)
DecimalValue(digits) ==
    IF digits = <<>> THEN 0
    ELSE 10 * DecimalValue(SubSeq(digits, 1, Len(digits) - 1))
           + DigitValue(digits[Len(digits)])

\* parseInt(text): an optional sign, then the leading digits; NaN without any
ParseInt(text) ==
    LET negative == text # <<>> /\ Head(text) = "-"
        digits == LeadingDigits(IF negative THEN Tail(text) ELSE text)
    IN  IF digits = <<>> THEN NaN
        ELSE IF negative THEN <<0 - DecimalValue(digits)>>
        ELSE <<DecimalValue(digits)>>

\* Math.max(a, number): NaN when the number is NaN
MathMax(a, number) == IF number = NaN THEN NaN ELSE <<Max2(a, number[1])>>

\* what the quantity input delivers: emptied, "0", "-1", "2", "1.5"
QuantityTexts == {<<>>, <<"0">>, <<"-", "1">>, <<"2">>, <<"1", ".", "5">>}

\* what the budget input delivers: emptied, "1000"
BudgetTexts == {<<>>, <<"1", "0", "0", "0">>}

OptimizedResults == {"r1", "r2"}

\* selectedProducts.find(p => p.id === product.id)
AlreadySelectedMutNever(selected, id) == FALSE

AlreadySelected(selected, id) == \E k \in 1..Len(selected) : selected[k].id = id

\* selectedProducts.filter(p => p.id !== productId)
RECURSIVE FilterOut(_, _)
FilterOut(selected, id) ==
    IF selected = <<>> THEN <<>>
    ELSE IF Head(selected).id = id THEN FilterOut(Tail(selected), id)
    ELSE <<Head(selected)>> \o FilterOut(Tail(selected), id)

\* the body of the quick-optimize request
QuickOptimizeData(selected, maxBudget) ==
    [product_ids |-> [k \in 1..Len(selected) |-> selected[k].id],
     max_budget |-> maxBudget,
     prioritize_sustainability |-> TRUE]

\* the signal loadProducts hands to productsAPI.list: loadProducts declares no
\* parameter and calls productsAPI.list(50), so none
LoadProductsSignal(signal) == <<>>

\* the optimize button: disabled={optimizing || selectedProducts.length === 0}
OptimizeEnabled(optimizing, selected) == ~(optimizing \/ Len(selected) = 0)

\* optimizedResult after a failed request: the catch block does not set it
ResultOnFailureMutCleared(result) == <<>>

ResultOnFailure(result) == result

RemoveAt(seq, k) == SubSeq(seq, 1, k - 1) \o SubSeq(seq, k + 1, Len(seq))

\* first render done, effects not yet run
InitList ==
    /\ comp = "list_page"
    /\ pc = "mount"
    /\ lProducts = <<>>
    /\ lLoad = "none"
    /\ lSelected = <<>>
    /\ lMaxBudget = <<DefaultMaxBudget>>
    /\ lOptimizing = FALSE
    /\ lResult = <<>>
    /\ lRequests = <<>>
    /\ KnapsackIdle
    /\ RouteIdle
    /\ ScorerIdle
    /\ FinderIdle
    /\ BatchIdle
    /\ ApiIdle
    /\ MapIdle
    /\ ScannerIdle

\* the effect of the mount: new AbortController(), loadProducts(controller.signal)
ListMount ==
    /\ comp = "list_page"
    /\ pc = "mount"
    /\ lLoad' = "pending"
    /\ pc' = "mounted"
    /\ UNCHANGED <<comp, lProducts, lSelected, lMaxBudget, lOptimizing, lResult, lRequests,
                   lOthers>>

\* the cleanup of the effect: controller.abort(), which rejects the requests
\* that were given the signal
ListUnmount ==
    /\ comp = "list_page"
    /\ pc = "mounted"
    /\ lLoad' = IF lLoad = "pending" /\ LoadProductsSignal("controller.signal") # <<>>
                THEN "failed"
                ELSE lLoad
    /\ pc' = "unmounted"
    /\ UNCHANGED <<comp, lProducts, lSelected, lMaxBudget, lOptimizing, lResult, lRequests,
                   lOthers>>

\* loadProducts after the await: setProducts(response.data)
ListProductsLoaded ==
    /\ comp = "list_page"
    /\ lLoad = "pending"
    /\ \E n \in 0..MaxCatalog : lProducts' = [k \in 1..n |-> k]
    /\ lLoad' = "loaded"
    /\ UNCHANGED <<comp, pc, lSelected, lMaxBudget, lOptimizing, lResult, lRequests, lOthers>>

\* loadProducts, the request failed: catch logs
ListProductsFailed ==
    /\ comp = "list_page"
    /\ lLoad = "pending"
    /\ lLoad' = "failed"
    /\ UNCHANGED <<comp, pc, lProducts, lSelected, lMaxBudget, lOptimizing, lResult, lRequests,
                   lOthers>>

\* addProduct, from the button of a product of the catalog
ListAddProduct(id) ==
    /\ comp = "list_page"
    /\ pc = "mounted"
    /\ \E k \in 1..Len(lProducts) : lProducts[k] = id
    /\ lSelected' = IF AlreadySelected(lSelected, id)
                    THEN lSelected
                    ELSE Append(lSelected, [id |-> id, quantity |-> <<1>>, priority |-> 3])
    /\ UNCHANGED <<comp, pc, lProducts, lLoad, lMaxBudget, lOptimizing, lResult, lRequests,
                   lOthers>>

\* removeProduct, from the button of a selected product
ListRemoveProduct(id) ==
    /\ comp = "list_page"
    /\ pc = "mounted"
    /\ AlreadySelected(lSelected, id)
    /\ lSelected' = FilterOut(lSelected, id)
    /\ UNCHANGED <<comp, pc, lProducts, lLoad, lMaxBudget, lOptimizing, lResult, lRequests,
                   lOthers>>

\* onChange of the quantity input of a selected product:
\* updateQuantity(product.id, parseInt(e.target.value))
ListUpdateQuantity(id, text) ==
    /\ comp = "list_page"
    /\ pc = "mounted"
    /\ AlreadySelected(lSelected, id)
    /\ lSelected' = [k \in 1..Len(lSelected) |->
                       IF lSelected[k].id = id
                       THEN [lSelected[k] EXCEPT !.quantity = MathMax(1, ParseInt(text))]
                       ELSE lSelected[k]]
    /\ UNCHANGED <<comp, pc, lProducts, lLoad, lMaxBudget, lOptimizing, lResult, lRequests,
                   lOthers>>

\* onChange of the budget input: setMaxBudget(parseInt(e.target.value))
ListSetMaxBudget(text) ==
    /\ comp = "list_page"
    /\ pc = "mounted"
    /\ lMaxBudget' = ParseInt(text)
    /\ UNCHANGED <<comp, pc, lProducts, lLoad, lSelected, lOptimizing, lResult, lRequests,
                   lOthers>>

\* optimizeList up to its await
ListOptimize ==
    /\ comp = "list_page"
    /\ pc = "mounted"
    /\ OptimizeEnabled(lOptimizing, lSelected)
    /\ Len(lRequests) < MaxOutstanding
    /\ IF Len(lSelected) = 0
       THEN UNCHANGED <<lOptimizing, lRequests>>
       ELSE /\ lOptimizing' = TRUE
            /\ lRequests' = Append(lRequests, QuickOptimizeData(lSelected, lMaxBudget))
    /\ UNCHANGED <<comp, pc, lProducts, lLoad, lSelected, lMaxBudget, lResult, lOthers>>

\* optimizeList after the await: setOptimizedResult(response.data), finally
ListOptimizeResolved ==
    /\ comp = "list_page"
    /\ \E k \in 1..Len(lRequests) : lRequests' = RemoveAt(lRequests, k)
    /\ \E data \in OptimizedResults : lResult' = <<data>>
    /\ lOptimizing' = FALSE
    /\ UNCHANGED <<comp, pc, lProducts, lLoad, lSelected, lMaxBudget, lOthers>>

\* optimizeList, the request failed: catch (console.error, alert), finally
ListOptimizeRejected ==
    /\ comp = "list_page"
    /\ \E k \in 1..Len(lRequests) : lRequests' = RemoveAt(lRequests, k)
    /\ lResult' = ResultOnFailure(lResult)
    /\ lOptimizing' = FALSE
    /\ UNCHANGED <<comp, pc, lProducts, lLoad, lSelected, lMaxBudget, lOthers>>

NextList ==
    \/ ListMount
    \/ ListUnmount
    \/ ListProductsLoaded
    \/ ListProductsFailed
    \/ \E id \in ProductIds : ListAddProduct(id)
    \/ \E id \in ProductIds : ListRemoveProduct(id)
    \/ \E id \in ProductIds : \E text \in QuantityTexts : ListUpdateQuantity(id, text)
    \/ \E text \in BudgetTexts : ListSetMaxBudget(text)
    \/ ListOptimize
    \/ ListOptimizeResolved
    \/ ListOptimizeRejected

SpecList == InitList /\ [][NextList]_vars

----------------------------------------------------------------------------
(* The platform: a run exercises one component on one input *)

Init ==
    InitKnapsack \/ InitEssentials \/ InitScorer \/ InitFinder \/ InitBatch \/ InitRoute
      \/ InitApi \/ InitStoreMap \/ InitScanner \/ InitList

Next ==
    NextKnapsack \/ NextEssentials \/ NextScorer \/ NextFinder \/ NextBatch \/ NextRoute
      \/ NextApi \/ NextMap \/ NextScanner \/ NextList

Spec == Init /\ [][Next]_vars

\* the three components that are handed lists by their caller: the knapsack
\* optimizer, the substitute finder (single and batch) and the route optimizer
InitCalls == InitKnapsack \/ InitFinder \/ InitBatch \/ InitRoute

NextCalls == NextKnapsack \/ NextFinder \/ NextBatch \/ NextRoute

SpecCalls == InitCalls /\ [][NextCalls]_vars

----------------------------------------------------------------------------
(* Claims: knapsack *)

KnapsackDone == comp = "knapsack" /\ pc = "done"

\* C1: the returned quantities never cost more than the budget:
\*     sum of unit_price x quantity <= budget.
C1_CostWithinBudget ==
    KnapsackDone => TotalCost(kProducts, kQuantities) <= kBudget

\* C1 witness: a run where the desired basket does not fit and something is bought
C1_Witness ==
    /\ KnapsackDone
    /\ DesiredCost(kProducts) > kBudget
    /\ TotalCost(kProducts, kQuantities) > 0

\* C2: every returned quantity is an integer with 0 <= quantity_i <= desiredQuantity_i.
C2_QuantityWithinDesired ==
    KnapsackDone =>
        /\ Len(kQuantities) = Len(kProducts)
        /\ \A i \in 1..Len(kProducts) :
              /\ kQuantities[i] \in Int
              /\ 0 <= kQuantities[i]
              /\ kQuantities[i] <= kProducts[i].desired

\* C2 witness: one product bought at its full desired amount, another not at all
C2_Witness ==
    /\ KnapsackDone
    /\ \E i, j \in 1..Len(kProducts) :
          /\ kQuantities[i] = kProducts[i].desired
          /\ kQuantities[j] = 0

\* every quantity vector for products 1..n within the desired amounts
RECURSIVE AllVectors(_, _)
AllVectors(prods, n) ==
    IF n = 0 THEN {<<>>}
    ELSE {Append(v, q) : v \in AllVectors(prods, n - 1), q \in 0..prods[n].desired}

BestValue(prods, B) ==
    MaxOf({TotalValue(prods, qs) : qs \in {v \in AllVectors(prods, Len(prods)) : TotalCost(prods, v) <= B}})

\* C5: the optimizer is exact: the returned total value is the maximum over all
\*     quantity vectors within the desired amounts and the budget, one quantity
\*     per product.
C5_Exact ==
    KnapsackDone =>
        /\ Len(kQuantities) = Len(kProducts)
        /\ TotalValue(kProducts, kQuantities) = BestValue(kProducts, kBudget)

\* C5 witness: the desired basket does not fit and some product is bought in part
C5_Witness ==
    /\ KnapsackDone
    /\ DesiredCost(kProducts) > kBudget
    /\ \E i, j \in 1..Len(kProducts) :
          /\ i # j
          /\ 0 < kQuantities[i]
          /\ kQuantities[i] < kProducts[i].desired
          /\ kProducts[i].value > 0
          /\ kQuantities[j] > 0
          /\ kProducts[j].price > 0

\* C7: with products, desired quantities and values fixed, the total value
\*     returned is monotone in the budget: whatever the optimizer returns for the
\*     budget one unit lower is worth no more than what it returned for this
\*     budget (this holds at every budget of every product list, so the chain of
\*     single steps gives B <= B' in general).
C7_MonotoneInBudget ==
    (KnapsackDone /\ kBudget > 0) =>
        \A qs \in Optimize(kProducts, kBudget - 1) :
            TotalValue(kProducts, qs) <= TotalValue(kProducts, kQuantities)

\* C7 witness: a smaller budget gives a strictly smaller total value
C7_Witness ==
    /\ KnapsackDone
    /\ kBudget > 0
    /\ \E qs \in Optimize(kProducts, kBudget - 1) :
          TotalValue(kProducts, qs) < TotalValue(kProducts, kQuantities)

NothingSelected ==
    /\ Len(kQuantities) = Len(kProducts)
    /\ \A i \in 1..Len(kProducts) : kQuantities[i] = 0
    /\ TotalCost(kProducts, kQuantities) = 0

BelowCheapest == \A i \in 1..Len(kProducts) : kBudget < kProducts[i].price

\* C12 (as stated): with budget = 0 and any non-empty product list, or with a
\*      budget smaller than the cheapest unit cost, the optimizer returns every
\*      quantity 0 with total_cost = 0, as a normal result.
C12_EmptyAtZeroBudget ==
    (KnapsackDone /\ kProducts # <<>> /\ (kBudget = 0 \/ BelowCheapest)) =>
        NothingSelected

\* C12 (amended): with a budget smaller than the cheapest unit cost (at budget
\*      0: when every price is positive) the optimizer returns every quantity 0
\*      with total_cost = 0, as a normal result; at budget 0 the total cost is
\*      0 for any product list, and only products of price 0 can be selected.
C12_EmptyBelowCheapest ==
    (KnapsackDone /\ kProducts # <<>>) =>
        /\ BelowCheapest => NothingSelected
        /\ kBudget = 0 =>
              /\ Len(kQuantities) = Len(kProducts)
              /\ TotalCost(kProducts, kQuantities) = 0
              /\ \A i \in 1..Len(kProducts) :
                    kQuantities[i] > 0 => kProducts[i].price = 0

\* C12 witness: a positive budget below the price of each of two products worth
\*      buying; nothing is selected
C12_Witness ==
    /\ KnapsackDone
    /\ Len(kProducts) = 2
    /\ kBudget > 0
    /\ BelowCheapest
    /\ \A i \in 1..Len(kProducts) : kProducts[i].value > 0
    /\ NothingSelected

----------------------------------------------------------------------------
(* Claims: essential products *)

EssentialsDone == comp = "essentials" /\ pc = "done"

\* cost of the essentials at their desired quantities
EssentialBasketCost ==
    TotalCost(kProducts,
              [i \in 1..Len(kProducts) |->
                  IF kProducts[i].essential THEN kProducts[i].desired ELSE 0])

EssentialsScaled ==
    \A i \in 1..Len(kProducts) :
        kProducts[i].essential =>
            kQuantities[i] = (kProducts[i].desired * kBudget) \div EssentialBasketCost

C11_EssentialsWithinBudget ==
    EssentialsDone =>
        /\ Len(kQuantities) = Len(kProducts)
        /\ TotalCost(kProducts, kQuantities) <= kBudget
        /\ EssentialBasketCost <= kBudget =>
              /\ \A i \in 1..Len(kProducts) :
                    kProducts[i].essential => kQuantities[i] = kProducts[i].desired
              /\ \E nq \in Optimize(SelectSeq(kProducts, NonEssential),
                                    kBudget - EssentialBasketCost) :
                    \A i \in 1..Len(kProducts) :
                        ~kProducts[i].essential =>
                            kQuantities[i] = nq[NonEssentialRank(kProducts, i)]
        /\ EssentialBasketCost > kBudget =>
              \A i \in 1..Len(kProducts) :
                  ~kProducts[i].essential => kQuantities[i] = 0

\* C11 witness: the essentials fit and cost something, and the remaining budget
\*      buys a non-essential only in part
C11_Witness ==
    /\ EssentialsDone
    /\ 0 < EssentialBasketCost
    /\ EssentialBasketCost < kBudget
    /\ \E i \in 1..Len(kProducts) :
          /\ ~kProducts[i].essential
          /\ 0 < kQuantities[i]
          /\ kQuantities[i] < kProducts[i].desired
          /\ kProducts[i].price * kProducts[i].desired > kBudget - EssentialBasketCost

----------------------------------------------------------------------------
(* Claims: route optimization *)

RouteBuilt == comp = "route" /\ pc \in {"two_opt", "done"}

IsPermutation(route, n) ==
    /\ Len(route) = n
    /\ \A s \in 1..n : Cardinality({k \in 1..n : route[k] = s}) = 1

\* C3: after nearest-neighbor construction and after every accepted 2-opt
\*     reversal the route is a permutation of the input stores: every store
\*     exactly once.
C3_RouteIsPermutation ==
    RouteBuilt =>
        /\ IsPermutation(rNNRoute, Len(rStores))
        /\ IsPermutation(rRoute, Len(rStores))

\* C3 witness: a route of at least three stores that 2-opt has reversed a part of
C3_Witness ==
    /\ RouteBuilt
    /\ Len(rStores) >= 3
    /\ rPasses >= 1
    /\ rRoute # rNNRoute

\* C6: the total distance of the route after 2-opt refinement is at most the
\*     total distance of the nearest-neighbor route it started from.
C6_TwoOptNotLonger ==
    RouteBuilt =>
        /\ rDistance = CalculateDistance(rStores, rStart, rRoute)
        /\ CalculateDistance(rStores, rStart, rRoute)
             <= CalculateDistance(rStores, rStart, rNNRoute)

\* C6 witness: 2-opt has finished with a route strictly shorter than nearest neighbor's
C6_Witness ==
    /\ comp = "route" /\ pc = "done"
    /\ CalculateDistance(rStores, rStart, rRoute)
         < CalculateDistance(rStores, rStart, rNNRoute)

RouteDone == comp = "route" /\ pc = "done"

\* C13: with zero stores optimize_route returns an empty route with total
\*      distance 0 and estimated time 0; with exactly one store it returns the
\*      route of that store, with total distance
\*      distance(start, store) + distance(store, start).
C13_TrivialRoutes ==
    RouteDone =>
        /\ Len(rStores) = 0 =>
              /\ rRoute = <<>>
              /\ rDistance = 0
              /\ rTime.travel_time = 0 /\ rTime.shopping_time = 0
        /\ Len(rStores) = 1 =>
              /\ rRoute = <<1>>
              /\ rDistance = Distance(rStart, rStores[1]) + Distance(rStores[1], rStart)

\* C13 witness: one store away from the start location, route returned
C13_Witness ==
    /\ RouteDone
    /\ Len(rStores) = 1
    /\ rStores[1] # rStart
    /\ rRoute = <<1>>
    /\ rDistance > 0
    /\ rTime.travel_time > 0
    /\ rTime.shopping_time = 15

\* the reversals of a contiguous segment route[i..j] with 1 <= i < j <= n
AllSegments(n) == {m \in (1..n) \X (1..n) : m[1] < m[2]}

\* C19 (as stated): when 2-opt stops because a full pass found no improvement,
\*      before the pass cap, no reversal of a contiguous segment route[i..j],
\*      1 <= i < j <= n, segments that start at the first visited store
\*      included, strictly reduces the total round-trip distance.
C19_LocallyOptimal ==
    (RouteDone /\ ~rImproved) =>
        \A m \in AllSegments(Len(rRoute)) :
            CalculateDistance(rStores, rStart, ReverseSegment(rRoute, m[1], m[2]))
              >= rDistance

NNCurrent(k) == IF k = 1 THEN rStart ELSE rStores[rNNRoute[k - 1]]

NNUnvisited(k) == (1..Len(rStores)) \ {rNNRoute[j] : j \in 1..(k - 1)}

----------------------------------------------------------------------------
(* Claims: sustainability scoring *)

ScorerDone == comp = "scorer" /\ pc = "done"

\* C8: each of economic_score, environmental_score and social_score is in
\*     [0,100] after clamping, and overall_score equals
\*     economic x 0.33 + environmental x 0.34 + social x 0.33 (here x 100),
\*     so it lies in [0,100] as well.
C8_ScoresInRange ==
    ScorerDone =>
        /\ sScore.economic_score \in 0..100
        /\ sScore.environmental_score \in 0..100
        /\ sScore.social_score \in 0..100
        /\ sScore.overall_score =
             33 * sScore.economic_score + 34 * sScore.environmental_score
               + 33 * sScore.social_score
        /\ sScore.overall_score \in 0..10000

\* C8 witness: a product whose environmental and social bonuses add up to more
\*     than 100 points before clamping
C8_Witness ==
    /\ ScorerDone
    /\ sProduct.origin = "local"
    /\ {"organic", "eco-friendly", "fair-trade", "b-corp"} \subseteq sProduct.labels
    /\ sScore.environmental_score = 100
    /\ sScore.social_score = 100
    /\ sScore.economic_score < 100

RatioIn(low, high) ==
    /\ low * sAverage <= 10 * sProduct.price
    /\ 10 * sProduct.price < high * sAverage

\* C22: the price-ratio adjustment of the economic score uses strict upper
\*      bounds on ratio = price / categoryAverage: +30 if ratio < 0.8, +20 if
\*      0.8 <= ratio < 1.0, +10 if 1.0 <= ratio < 1.2, -10 if 1.2 <= ratio < 1.5,
\*      -20 if ratio >= 1.5; a product priced exactly at the category average,
\*      with no nutrition data, no labels and no bulk bonus, scores 60.
C22_StrictRatioBrackets ==
    (ScorerDone /\ sAverage > 0) =>
        LET adjustment == sScore.economic_score - BaseScore
                            - NutritionBonus(sProduct) - BulkBonus(sProduct.quantity)
        IN  /\ 10 * sProduct.price < 8 * sAverage => adjustment = 30
            /\ RatioIn(8, 10) => adjustment = 20
            /\ RatioIn(10, 12) => adjustment = 10
            /\ RatioIn(12, 15) => adjustment = -10
            /\ 10 * sProduct.price >= 15 * sAverage => adjustment = -20
            /\ ( /\ sProduct.price = sAverage
                 /\ sProduct.protein = <<>> /\ sProduct.fiber = <<>>
                 /\ sProduct.labels = {}
                 /\ sProduct.quantity = 0 ) => sScore.economic_score = 60

\* C22 witness: a product priced exactly at the category average, without
\*      nutrition data, labels or bulk quantity, scored 60
C22_Witness ==
    /\ ScorerDone
    /\ sAverage > 0
    /\ sProduct.price = sAverage
    /\ sProduct.protein = <<>> /\ sProduct.fiber = <<>>
    /\ sProduct.labels = {}
    /\ sProduct.quantity = 0
    /\ sScore.economic_score = 60

----------------------------------------------------------------------------
(* Claims: product substitution *)

FinderDone == comp = "substitutes" /\ pc = "done"

\* C4: every returned result satisfies
\*     candidate.price <= product.price x (1 + maxPriceIncreasePct) and
\*     candidate.overall_score - product.overall_score >= minSustainabilityImprovement;
\*     a candidate with the original's price and overall score is never returned
\*     when the minimum improvement is positive.
C4_ResultsPassFilters ==
    FinderDone =>
        \A k \in 1..Len(fResults) :
            LET c == fResults[k].candidate
            IN  /\ c.price * 100 <= fProduct.price * (100 + fMaxIncrease)
                /\ c.overall_score - fProduct.overall_score >= fMinImprove
                /\ fMinImprove > 0 =>
                      ~(c.price = fProduct.price /\ c.overall_score = fProduct.overall_score)

\* C4 witness: a positive minimum improvement; the pool holds a candidate equal
\*     to the original in price and score, which is left out, and one exactly
\*     at both limits, which is returned
C4_Witness ==
    /\ FinderDone
    /\ fMinImprove > 0
    /\ fMaxIncrease > 0
    /\ \E i \in 1..Len(fPool) :
          fPool[i].price = fProduct.price /\ fPool[i].overall_score = fProduct.overall_score
    /\ \E k \in 1..Len(fResults) :
          /\ fResults[k].candidate.price * 100 = fProduct.price * (100 + fMaxIncrease)
          /\ fResults[k].candidate.overall_score - fProduct.overall_score = fMinImprove

\* C9: the returned list is ordered by substitution score descending, and two
\*     results of equal score are ordered by candidate price ascending.
C9_SortedByScoreThenPrice ==
    FinderDone =>
        \A k \in 1..(Len(fResults) - 1) :
            \/ fResults[k].score > fResults[k + 1].score
            \/ /\ fResults[k].score = fResults[k + 1].score
               /\ fResults[k].candidate.price <= fResults[k + 1].candidate.price

\* C9 witness: two results of equal score and different price, the dearer one
\*     first in the pool
C9_Witness ==
    /\ FinderDone
    /\ Len(fResults) = 2
    /\ fResults[1].score = fResults[2].score
    /\ fResults[1].candidate.price < fResults[2].candidate.price
    /\ fPool[1] = fResults[2].candidate

\* C14: for every returned result the substitution score equals
\*      improvement x 0.35 + savings x 0.30 + category x 0.20 + nutrition x 0.15
\*      (here x 1200 x original price), where improvement and savings are
\*      clamped to [0,100], category is 30, 70 or 100 and nutrition is an
\*      average of similarities in [0,100], 0 when no nutrient field is shared;
\*      so the score lies in [0,100].
C14_ScoreComposition ==
    FinderDone =>
        \A k \in 1..Len(fResults) :
            LET c == fResults[k].candidate
                price == fProduct.price
                improvement == ImprovementComponent(fProduct, c)
                savings == SavingsComponentTimesPrice(fProduct, c)
                category == CategoryComponent(fProduct, c)
                nutrition == NutritionComponentTimes12(fProduct, c)
            IN  /\ improvement = Min2(100, Max2(0, c.overall_score - fProduct.overall_score))
                /\ improvement \in 0..100
                /\ savings \in 0..(100 * price)
                /\ (c.price >= price) => savings = 0
                /\ (c.price < price) =>
                      savings = Min2(100 * price, (price - c.price) * 500)
                /\ category \in {30, 70, 100}
                /\ nutrition \in 0..1200
                /\ SharedMetrics(fProduct, c) = {} => nutrition = 0
                /\ fResults[k].score =
                      35 * 12 * price * improvement + 30 * 12 * savings
                        + 20 * 12 * price * category + 15 * price * nutrition
                /\ fResults[k].score \in 0..(100 * 1200 * price)

\* C14 witness: one result dearer than the original (savings clamped to 0) with
\*      no shared nutrient field, and one result at half the price (savings
\*      clamped to 100) of the same category whose nutrition is an average
\*      over two shared fields
C14_Witness ==
    /\ FinderDone
    /\ \E k, l \in 1..Len(fResults) :
          /\ fResults[k].candidate.price > fProduct.price
          /\ SharedMetrics(fProduct, fResults[k].candidate) = {}
          /\ fResults[k].score > 0
          /\ fResults[l].candidate.price * 2 <= fProduct.price
          /\ SavingsComponentTimesPrice(fProduct, fResults[l].candidate)
                = 100 * fProduct.price
          /\ fResults[l].candidate.category = fProduct.category
          /\ Cardinality(SharedMetrics(fProduct, fResults[l].candidate)) = 2
          /\ NutritionComponentTimes12(fProduct, fResults[l].candidate) \in 1..1199

----------------------------------------------------------------------------
(* Claims: all components *)

----------------------------------------------------------------------------
(* Claims: batch substitution *)

BatchDone == comp = "batch" /\ pc = "done"

\* the best substitute of a product over the shared pool, as a list of 0 or 1
BestOf(product) ==
    LET substitutes == FindSubstitutes(product, bPool,
                         DefaultMaxPriceIncrease, DefaultMinImprovement)
    IN  IF substitutes = <<>> THEN <<>> ELSE <<substitutes[1]>>

\* the input products that have a passing candidate
Contributing == {i \in 1..Len(bProducts) : BestOf(bProducts[i]) # <<>>}

\* C15: batch substitution returns at most one result per input product: the
\*      results are, one for one, the first (highest-scoring) entries of
\*      find_substitutes over the shared pool for the products that have a
\*      passing candidate, a product without one contributes nothing, and the
\*      list is ordered by sustainability_improvement + savings x 10 descending.
C15_BatchBestPerProduct ==
    BatchDone =>
        /\ Len(bResults) <= Len(bProducts)
        /\ Len(bResults) = Cardinality(Contributing)
        /\ \E f \in [1..Len(bResults) -> Contributing] :
              /\ \A k, l \in 1..Len(bResults) : k # l => f[k] # f[l]
              /\ \A k \in 1..Len(bResults) : bResults[k] = BestOf(bProducts[f[k]])[1]
        /\ \A k \in 1..Len(bResults) : \A i \in 1..Len(bPool) :
              Passes(bResults[k].original, bPool[i],
                     DefaultMaxPriceIncrease, DefaultMinImprovement)
                => SubstitutionScore(bResults[k].original, bPool[i]) <= bResults[k].score
        /\ \A k \in 1..(Len(bResults) - 1) :
              bResults[k].sustainability_improvement + bResults[k].savings * 10
                >= bResults[k + 1].sustainability_improvement
                     + bResults[k + 1].savings * 10

\* C15 witness: three products over a pool of two passing candidates; one
\*      product has no passing candidate, and the results of the other two
\*      come back in the reverse of the input order, with different keys
C15_Witness ==
    /\ BatchDone
    /\ Len(bProducts) = 3
    /\ Len(bPool) = 2
    /\ Len(bResults) = 2
    /\ \E i, j \in 1..3 :
          /\ i < j
          /\ bResults[1].original = bProducts[j]
          /\ bResults[2].original = bProducts[i]
          /\ bProducts[i] # bProducts[j]
    /\ BatchKey(bResults[1]) > BatchKey(bResults[2])
    /\ \E i \in 1..2 :
          Len(FindSubstitutes(bResults[i].original, bPool,
                              DefaultMaxPriceIncrease, DefaultMinImprovement)) = 2

----------------------------------------------------------------------------
(* Claims: frontend API client *)

\* C18 (as stated): in a deployed (non-localhost) frontend, requests are sent to
\*      the backend URL configured through VITE_API_URL: the base URL of the
\*      axios client is the value VITE_API_URL had in the build, so changing
\*      VITE_API_URL changes the base URL.
C18_ViteApiUrlUsed ==
    (comp = "api" /\ pc = "done" /\ isProduction(aHostname) /\ Truthy(aEnv)) =>
        /\ aBaseURL = aEnv
        /\ aRequest[1].baseURL = aEnv[1]

----------------------------------------------------------------------------
(* Claims: store map page *)

\* C23 (as stated): in the Leaflet store map, whenever the store list has
\*      loaded non-empty and the Leaflet script has finished loading, the map
\*      is eventually initialized with its markers, whichever of the two
\*      asynchronous loads completes first.
C23_MapEventuallyInitialized ==
    (comp = "map" /\ Len(mStores) > 0 /\ mWindowL) ~> (mMap # <<>>)

----------------------------------------------------------------------------
(* Claims: scanner page *)

\* C24 (as stated): in the Scanner page, after any sequence of completed
\*      barcode scans, searches and result selections, the error message and
\*      the displayed product are never both set: whenever error is non-null,
\*      product is null.
C24_ErrorExcludesProduct ==
    (comp = "scanner_page" /\ Outstanding = 0 /\ scError # <<>>) => scProduct = <<>>

\* C25: in the Scanner page, with submissions made through the two submit
\*      buttons, at most one scan-or-search request is outstanding at any
\*      time, loading is true exactly while that request is outstanding, and
\*      loading is false again once the request has completed, on success and
\*      on failure.
C25_OneRequestWhileLoading ==
    comp = "scanner_page" =>
        /\ Outstanding <= 1
        /\ scLoading <=> Outstanding = 1

\* C25 witness: a search has failed, after a scan that found a product; no
\*      request is outstanding and loading is false
C25_Witness ==
    /\ comp = "scanner_page"
    /\ Outstanding = 0
    /\ ~scLoading
    /\ scProduct # <<>>
    /\ scError = <<"Error al buscar productos">>

----------------------------------------------------------------------------
(* Claims: shopping list page *)

ListPage == comp = "list_page"

\* C26: optimizeList issues no request when the selection is empty; otherwise
\*      the optimizing flag is true exactly while the quick-optimize request
\*      is outstanding and is false again when it completes, on success and
\*      on failure alike; on failure the optimizedResult shown before is left
\*      unchanged.
C26_OptimizingWhileOutstanding ==
    /\ [](ListPage =>
            /\ Len(lRequests) <= 1
            /\ lOptimizing <=> Len(lRequests) = 1)
    /\ [][(ListPage /\ Len(lSelected) = 0) => Len(lRequests') <= Len(lRequests)]_vars
    /\ [][ListOptimizeRejected => lResult' = lResult]_vars

\* C26 witness: a quick-optimize request is outstanding while the result of
\*      an earlier one is shown
C26_Witness ==
    /\ ListPage
    /\ lOptimizing
    /\ Len(lRequests) = 1
    /\ lResult # <<>>

\* C27: after any sequence of addProduct, removeProduct and updateQuantity
\*      calls selectedProducts holds at most one entry per product id; adding
\*      a product already selected leaves the list, and that entry's
\*      quantity, unchanged; removeProduct removes exactly the entry with the
\*      given id.
C27_OneEntryPerProduct ==
    /\ [](ListPage =>
            \A i, j \in 1..Len(lSelected) :
                lSelected[i].id = lSelected[j].id => i = j)
    /\ [][\A id \in ProductIds :
             (ListAddProduct(id) /\ \E k \in 1..Len(lSelected) : lSelected[k].id = id)
                => lSelected' = lSelected]_vars
    /\ [][\A id \in ProductIds :
             ListRemoveProduct(id) =>
                 /\ \A k \in 1..Len(lSelected') : lSelected'[k].id # id
                 /\ Len(lSelected') = Len(lSelected) - 1
                 /\ \A k \in 1..Len(lSelected) :
                       lSelected[k].id # id =>
                           \E n \in 1..Len(lSelected') : lSelected'[n] = lSelected[k]]_vars

\* C27 witness: both products of the catalog are selected, in another order
\*      than the catalog's, one of them with a quantity that was set
C27_Witness ==
    /\ ListPage
    /\ Len(lSelected) = 2
    /\ lSelected[1].id = 2
    /\ lSelected[2].quantity = <<2>>

\* C28 (as stated): every selected product's quantity is a number >= 1 after
\*      any sequence of addProduct and updateQuantity calls, for every value
\*      the quantity input can deliver, an emptied field and zero or negative
\*      numbers included.
C28_QuantityAtLeastOne ==
    ListPage =>
        \A k \in 1..Len(lSelected) :
            /\ lSelected[k].quantity # NaN
            /\ lSelected[k].quantity[1] >= 1

\* the quantities a request body carries, one per product: none when the body
\* has no field for them
RequestQuantities(data) ==
    IF "quantities" \in DOMAIN data THEN data.quantities ELSE <<>>

\* C29 (as stated): the quick-optimize request sent by optimizeList carries,
\*      for every selected product, the quantity held in selectedProducts.
C29_RequestCarriesQuantities ==
    [][(ListPage /\ Len(lRequests') > Len(lRequests)) =>
          RequestQuantities(lRequests'[Len(lRequests')])
            = [k \in 1..Len(lSelected) |-> lSelected[k].quantity]]_vars

\* C30 (as stated): unmounting the component cancels the pending product
\*      load: once the effect cleanup has called controller.abort(), a
\*      response to productsAPI.list arriving later never calls setProducts.
C30_NoSetProductsAfterAbort ==
    [][(ListPage /\ pc = "unmounted") => ~(lLoad = "pending" /\ lLoad' = "loaded")]_vars

====
